---------------------------- MODULE Spec2Model ----------------------------
(***************************************************************************)
(* A model of ex2md (src/ex2md.py, with the older src/e2md.py): the range  *)
(* parser excel_range_to_params / range_checker, the selector parsers      *)
(* parse_sheet_names / parse_sheet_numbers, the cell escaping of           *)
(* escape_newlines, and the batch driver process_excel_to_markdown with    *)
(* its sink save_markdown / post_markdown_to_api.                          *)
(*                                                                         *)
(* A Python str is a sequence of one-character strings.  A call that can   *)
(* raise returns a record whose field ok is FALSE and whose field exc      *)
(* names the exception class.                                              *)
(***************************************************************************)
EXTENDS Integers, Sequences, FiniteSets

VARIABLES
    pc,               \* position of the running function
    range_str,        \* excel_range_to_params: the argument
    params,           \* excel_range_to_params: what the call produced
    checked,          \* range_checker: the boolean it returned
    sheet_names,      \* parse_sheet_names: the argument
    parsed,           \* parse_sheet_names: what the call produced
    df,               \* escape_newlines: the table, a sequence of cells
    df_escaped,       \* escape_newlines: the table it returned
    marker,           \* escape_newlines: the escape marker of the version run
    workbook,         \* the file at input_file: "ok", "missing" or "corrupt"
    pd_has_XLRDError, \* whether the installed pandas.errors defines XLRDError
    sheets,           \* process_excel_to_markdown: the batch of sheet specs
    upload,           \* process_excel_to_markdown: the flag upload
    save_as_file,     \* process_excel_to_markdown: the flag save_as_file
    idx,              \* position in sheets of the sheet of the current turn
    sheet_name,       \* the local sheet_name of the current turn
    files,            \* the output files on disk, by sheet label
    events,           \* the reads, writes and uploads made, in order
    errors            \* the logging.error records, in order

rangeVars == <<range_str, params, checked>>

nameVars == <<sheet_names, parsed>>

escVars == <<df, df_escaped, marker>>

inputVars == <<workbook, pd_has_XLRDError, sheets, upload, save_as_file>>

batchVars == <<inputVars, idx, sheet_name, files, events, errors>>

vars == <<pc, rangeVars, nameVars, escVars, batchVars>>

(***************************************************************************)
(* Bounds of the model.                                                    *)
(***************************************************************************)
MaxRangeLen == 5

MaxSelLen == 5

MaxCellLen == 4

MaxNumSelLen == 3

MaxNameSelLen == 5

MaxBatch == 3

(***************************************************************************)
(* Strings.                                                                *)
(***************************************************************************)
StringsUpTo(alphabet, n) == UNION {[1..k -> alphabet] : k \in 0..n}

\* str.isdigit() on the characters of the model's alphabets
Digit == {"0", "1", "2", "3", "4", "5", "6", "7", "8", "9"}

DigitVal(c) ==
    CASE c = "0" -> 0 [] c = "1" -> 1 [] c = "2" -> 2 [] c = "3" -> 3
      [] c = "4" -> 4 [] c = "5" -> 5 [] c = "6" -> 6 [] c = "7" -> 7
      [] c = "8" -> 8 [] c = "9" -> 9

\* int(s) raises ValueError unless s is a non-empty run of digits
IntOk(s) == Len(s) > 0 /\ \A i \in 1..Len(s) : s[i] \in Digit

\* int(s) for a run of digits: base 10, leading zeros allowed
RECURSIVE IntVal(_)
IntVal(s) ==
    IF s = <<>> THEN 0
    ELSE 10 * IntVal(SubSeq(s, 1, Len(s) - 1)) + DigitVal(s[Len(s)])

Raise(e) == [ok |-> FALSE, exc |-> e]

\* a sheet identifier is an int (parse_sheet_numbers) or a str (parse_sheet_names)
Index(i) == [kind |-> "int", n |-> i, name |-> <<>>]

Name(s) == [kind |-> "str", n |-> 0, name |-> s]

(***************************************************************************)
(* excel_range_to_params, range_checker                                    *)
(***************************************************************************)
ScanInit ==
    [start_col |-> <<>>, start_row |-> <<>>, end_col |-> <<>>, end_row |-> <<>>,
     parsing_end_col |-> FALSE]

\* one turn of the loop "for char in range_str"
ScanChar(st, char) ==
    IF char \in Digit
    THEN IF ~st.parsing_end_col
         THEN [st EXCEPT !.start_row = Append(@, char)]
         ELSE [st EXCEPT !.end_row = Append(@, char)]
    ELSE IF char = ":"
    THEN [st EXCEPT !.parsing_end_col = TRUE]
    ELSE IF ~st.parsing_end_col
    THEN [st EXCEPT !.start_col = Append(@, char)]
    ELSE [st EXCEPT !.end_col = Append(@, char)]

RECURSIVE ScanRange(_, _)
ScanRange(s, n) ==
    IF n = 0 THEN ScanInit ELSE ScanChar(ScanRange(s, n - 1), s[n])

Skiprows_offByOne(start_row) == IntVal(start_row)

\* skiprows = int(start_row) - 1
Skiprows(start_row) == IntVal(start_row) - 1

excel_range_to_params(s) ==
    LET st == ScanRange(s, Len(s)) IN
    IF ~IntOk(st.start_row) \/ ~IntOk(st.end_row)
    THEN Raise("ValueError")
    ELSE LET skiprows == Skiprows(st.start_row) IN
         [ok |-> TRUE,
          usecols |-> st.start_col \o <<":">> \o st.end_col,
          skiprows |-> skiprows,
          nrows |-> IntVal(st.end_row) - skiprows]

\* try: excel_range_to_params(...); return True / except: return False
range_checker(s) == excel_range_to_params(s).ok

RangeAlphabet == {"A", "B", "0", "1", "2", ":", "$"}

\* the range strings of the usage text and of the documentation
RangeExamples ==
    {<<"A", "1", ":", "D", "1", "0">>,
     <<"B", "5", ":", "B", "2", "0">>,
     <<"A", "1", ":", "B", "1", "0">>,
     <<"A", ":", "D", "1", "0">>}

NoParams == Raise("unset")

\* the variables of a function that is not the one under study
RangeIdle == range_str = <<>> /\ params = NoParams /\ checked = FALSE

NamesIdle == sheet_names = <<>> /\ parsed = NoParams

EscapeIdle == df = <<>> /\ df_escaped = <<>> /\ marker = <<>>

BatchIdle ==
    /\ workbook = "ok" /\ pd_has_XLRDError = FALSE /\ sheets = <<>>
    /\ upload = FALSE /\ save_as_file = FALSE /\ idx = 0
    /\ sheet_name = Name(<<>>)
    /\ files = {} /\ events = <<>> /\ errors = <<>>

InitRange ==
    /\ pc = "start"
    /\ range_str \in StringsUpTo(RangeAlphabet, MaxRangeLen) \cup RangeExamples
    /\ params = NoParams
    /\ checked = FALSE
    /\ NamesIdle
    /\ EscapeIdle
    /\ BatchIdle

ParseRange ==
    /\ pc = "start"
    /\ pc' = "returned"
    /\ params' = excel_range_to_params(range_str)
    /\ checked' = range_checker(range_str)
    /\ UNCHANGED <<range_str, nameVars, escVars, batchVars>>

NextRange == ParseRange

SpecRange == InitRange /\ [][NextRange]_vars

(***************************************************************************)
(* The form <letters><digits>:<letters><digits>, read off the string       *)
(* without the scanner.                                                    *)
(***************************************************************************)
Letter == {"A", "B", "C", "D"}

IsLetters(s) == Len(s) > 0 /\ \A i \in 1..Len(s) : s[i] \in Letter

IsDigits(s) == Len(s) > 0 /\ \A i \in 1..Len(s) : s[i] \in Digit

\* the places (p, q, r) that cut s into startCol startRow ":" endCol endRow
Cuts(s) ==
    {c \in (1..Len(s)) \X (1..Len(s)) \X (1..Len(s)) :
        /\ c[1] < c[2] /\ c[2] < c[3] /\ c[3] < Len(s)
        /\ IsLetters(SubSeq(s, 1, c[1]))
        /\ IsDigits(SubSeq(s, c[1] + 1, c[2] - 1))
        /\ s[c[2]] = ":"
        /\ IsLetters(SubSeq(s, c[2] + 1, c[3]))
        /\ IsDigits(SubSeq(s, c[3] + 1, Len(s)))}

WellFormed(s) == Cuts(s) # {}

StartCol(s) == LET c == CHOOSE c \in Cuts(s) : TRUE IN SubSeq(s, 1, c[1])

StartRow(s) == LET c == CHOOSE c \in Cuts(s) : TRUE IN SubSeq(s, c[1] + 1, c[2] - 1)

EndCol(s) == LET c == CHOOSE c \in Cuts(s) : TRUE IN SubSeq(s, c[2] + 1, c[3])

EndRow(s) == LET c == CHOOSE c \in Cuts(s) : TRUE IN SubSeq(s, c[3] + 1, Len(s))

\* C6: excel_range_to_params succeeds, and range_checker returns true, exactly
\* for the range strings of the form <letters><digits>:<letters><digits>.
C6_FailsUnlessWellFormed ==
    pc = "returned" =>
        /\ params.ok <=> WellFormed(range_str)
        /\ checked <=> WellFormed(range_str)

\* C7: for a range string <startCol><startRow>:<endCol><endRow> the call returns
\* usecols = "<startCol>:<endCol>", skiprows = startRow - 1 and
\* nrows = endRow - skiprows = endRow - startRow + 1; "A1:D10" gives (A:D, 0, 10)
\* and "B5:B20" gives (B:B, 4, 16).
C7_ParamsOfWellFormed ==
    (pc = "returned" /\ WellFormed(range_str)) =>
        /\ params.ok
        /\ params.usecols = StartCol(range_str) \o <<":">> \o EndCol(range_str)
        /\ params.skiprows = IntVal(StartRow(range_str)) - 1
        /\ params.nrows = IntVal(EndRow(range_str)) - params.skiprows
        /\ params.nrows = IntVal(EndRow(range_str)) - IntVal(StartRow(range_str)) + 1
        /\ range_str = <<"A", "1", ":", "B", "2">> =>
               params = [ok |-> TRUE, usecols |-> <<"A", ":", "B">>,
                         skiprows |-> 0, nrows |-> 2]
        /\ range_str = <<"B", "2", ":", "B", "2">> =>
               params = [ok |-> TRUE, usecols |-> <<"B", ":", "B">>,
                         skiprows |-> 1, nrows |-> 1]
        /\ range_str = <<"A", "1", ":", "D", "1", "0">> =>
               params = [ok |-> TRUE, usecols |-> <<"A", ":", "D">>,
                         skiprows |-> 0, nrows |-> 10]
        /\ range_str = <<"B", "5", ":", "B", "2", "0">> =>
               params = [ok |-> TRUE, usecols |-> <<"B", ":", "B">>,
                         skiprows |-> 4, nrows |-> 16]

C7_Witness ==
    /\ pc = "returned"
    /\ range_str = <<"B", "5", ":", "B", "2", "0">>
    /\ params.ok

\* C8: every value excel_range_to_params returns has skiprows >= 0 and
\* nrows >= 1.
C8_ParamsInRange ==
    (pc = "returned" /\ params.ok) => (params.skiprows >= 0 /\ params.nrows >= 1)

(***************************************************************************)
(* parse_sheet_names                                                       *)
(***************************************************************************)
\* s.split(sep) for a one-character sep: the pieces between the separators,
\* one more than there are separators
RECURSIVE Split(_, _)
Split(s, sep) ==
    IF \A i \in 1..Len(s) : s[i] # sep
    THEN <<s>>
    ELSE LET i == CHOOSE i \in 1..Len(s) :
                      s[i] = sep /\ \A j \in 1..(i - 1) : s[j] # sep
         IN <<SubSeq(s, 1, i - 1)>> \o Split(SubSeq(s, i + 1, Len(s)), sep)

\* str.isspace() on the characters of the model's alphabets
Whitespace == {" "}

\* s.strip()
RECURSIVE Strip(_)
Strip(s) ==
    IF s = <<>> THEN s
    ELSE IF s[1] \in Whitespace THEN Strip(Tail(s))
    ELSE IF s[Len(s)] \in Whitespace THEN Strip(SubSeq(s, 1, Len(s) - 1))
    ELSE s

\* "x in item"
Contains(item, x) == \E i \in 1..Len(item) : item[i] = x

\* the body of the loop of parse_sheet_names for one item: the spec it appends,
\* or the exception it raises
ParseItem(item) ==
    IF Contains(item, "!")
    THEN LET parts == Split(item, "!") IN
         IF Len(parts) # 2
         THEN Raise("ValueError")      \* sheet, range_str = ... cannot unpack
         ELSE IF ~range_checker(parts[2])
         THEN Raise("ValueError")      \* raise ValueError(f"Invalid range: ...")
         ELSE [ok |-> TRUE, spec |-> [sheet |-> Name(Strip(parts[1])), range |-> parts[2]]]
    ELSE [ok |-> TRUE, spec |-> [sheet |-> Name(Strip(item)), range |-> <<>>]]

\* the loop over the first n items: the list built so far, or the first
\* exception raised
RECURSIVE ParseItems(_, _)
ParseItems(items, n) ==
    IF n = 0 THEN [ok |-> TRUE, sheets |-> <<>>]
    ELSE LET before == ParseItems(items, n - 1) IN
         IF ~before.ok THEN before
         ELSE LET r == ParseItem(items[n]) IN
              IF ~r.ok THEN Raise(r.exc)
              ELSE [ok |-> TRUE, sheets |-> Append(before.sheets, r.spec)]

\* a parse that drops the items it cannot parse and returns the rest
RECURSIVE KeepParsable(_, _)
KeepParsable(items, n) ==
    IF n = 0 THEN <<>>
    ELSE LET r == ParseItem(items[n]) IN
         IF r.ok THEN Append(KeepParsable(items, n - 1), r.spec)
         ELSE KeepParsable(items, n - 1)

parse_sheet_names_partial(s) ==
    LET items == Split(s, ",") IN
    [ok |-> TRUE, sheets |-> KeepParsable(items, Len(items))]

parse_sheet_names(s) ==
    LET items == Split(s, ",") IN ParseItems(items, Len(items))

SelAlphabet == {"S", " ", "!", ",", "1", ":"}

\* the selector of the usage text
SelExample ==
    <<"S", "h", "e", "e", "t", "1", "!", "A", "1", ":", "B", "1", "0">>
    \o <<",", "S", "h", "e", "e", "t", "2">>

Sheet1 == <<"S", "h", "e", "e", "t", "1">>

Sheet2 == <<"S", "h", "e", "e", "t", "2">>

InitNames ==
    /\ pc = "start"
    /\ sheet_names \in StringsUpTo(SelAlphabet, MaxSelLen) \cup {SelExample}
    /\ parsed = NoParams
    /\ RangeIdle
    /\ EscapeIdle
    /\ BatchIdle

ParseNames ==
    /\ pc = "start"
    /\ pc' = "returned"
    /\ parsed' = parse_sheet_names(sheet_names)
    /\ UNCHANGED <<sheet_names, rangeVars, escVars, batchVars>>

NextNames == ParseNames

SpecNames == InitNames /\ [][NextNames]_vars

\* the tokens of the selector as written, and the text before and after the
\* first '!' of a token
Tokens == Split(sheet_names, ",")

FirstBang(t) == CHOOSE i \in 1..Len(t) : t[i] = "!" /\ \A j \in 1..(i - 1) : t[j] # "!"

BeforeBang(t) == SubSeq(t, 1, FirstBang(t) - 1)

AfterBang(t) == SubSeq(t, FirstBang(t) + 1, Len(t))

BangCount(t) == Cardinality({i \in 1..Len(t) : t[i] = "!"})

\* C9 as stated: the parse fails exactly when some token carries a '!range'
\* suffix that fails range validation; otherwise it returns one spec per token,
\* in order, with the name before '!' and the range after it, or no range.
C9_AllOrNothing_AsStated ==
    pc = "returned" =>
        IF \E k \in 1..Len(Tokens) :
               Contains(Tokens[k], "!") /\ ~range_checker(AfterBang(Tokens[k]))
        THEN ~parsed.ok
        ELSE /\ parsed.ok
             /\ Len(parsed.sheets) = Len(Tokens)
             /\ \A k \in 1..Len(Tokens) :
                    parsed.sheets[k] =
                        IF Contains(Tokens[k], "!")
                        THEN [sheet |-> Name(BeforeBang(Tokens[k])),
                              range |-> AfterBang(Tokens[k])]
                        ELSE [sheet |-> Name(Tokens[k]), range |-> <<>>]

\* C9 amended: the parse fails, returning no list, exactly when some token holds
\* more than one '!' or carries a '!range' suffix that range_checker rejects;
\* otherwise it returns one spec per token, in the order written (duplicates
\* kept), with the whitespace-stripped name before '!' and the range after it,
\* or the stripped token and the empty range for a bare name.
C9_AllOrNothing ==
    pc = "returned" =>
        /\ IF \E k \in 1..Len(Tokens) :
                  /\ Contains(Tokens[k], "!")
                  /\ (BangCount(Tokens[k]) > 1 \/ ~range_checker(AfterBang(Tokens[k])))
           THEN parsed = Raise("ValueError")
           ELSE /\ parsed.ok
                /\ Len(parsed.sheets) = Len(Tokens)
                /\ \A k \in 1..Len(Tokens) :
                       parsed.sheets[k] =
                           IF Contains(Tokens[k], "!")
                           THEN [sheet |-> Name(Strip(BeforeBang(Tokens[k]))),
                                 range |-> AfterBang(Tokens[k])]
                           ELSE [sheet |-> Name(Strip(Tokens[k])), range |-> <<>>]
        /\ sheet_names = SelExample =>
               parsed = [ok |-> TRUE,
                         sheets |-> <<[sheet |-> Name(Sheet1),
                                       range |-> <<"A", "1", ":", "B", "1", "0">>],
                                      [sheet |-> Name(Sheet2), range |-> <<>>]>>]

\* a selector whose first token is fine and whose second carries a bad range:
\* the whole parse failed
C9_Witness ==
    /\ pc = "returned"
    /\ sheet_names = <<"S", ",", "S", "!", ":">>
    /\ ~parsed.ok

(***************************************************************************)
(* escape_newlines (ex2md.py: marker <br>; e2md.py: marker backslash n)    *)
(***************************************************************************)
LF == "\n"

BR == <<"<", "b", "r", ">">>

BackslashN == <<"\\", "n">>

\* s.replace(old, new) for a non-empty old: the occurrences of old found
\* scanning from the left, without overlap, each replaced by new
RECURSIVE Replace(_, _, _)
Replace(s, old, new) ==
    IF Len(s) < Len(old) THEN s
    ELSE IF SubSeq(s, 1, Len(old)) = old
    THEN new \o Replace(SubSeq(s, Len(old) + 1, Len(s)), old, new)
    ELSE <<s[1]>> \o Replace(Tail(s), old, new)

\* a cell is a str (kind "str", val its characters) or a value of another type
StrCell(s) == [kind |-> "str", val |-> s]

NumCell == [kind |-> "int", val |-> <<"7">>]

\* s.replace(old, new, 1): the first line break only
EscapeCell_firstOnly(x, m) ==
    IF x.kind = "str" /\ Contains(x.val, LF)
    THEN LET i == CHOOSE i \in 1..Len(x.val) :
                      x.val[i] = LF /\ \A j \in 1..(i - 1) : x.val[j] # LF
         IN StrCell(SubSeq(x.val, 1, i - 1) \o m \o SubSeq(x.val, i + 1, Len(x.val)))
    ELSE x

\* lambda x: x.replace('\n', marker) if isinstance(x, str) else x
EscapeCell(x, m) ==
    IF x.kind = "str" THEN StrCell(Replace(x.val, <<LF>>, m)) ELSE x

\* df.applymap(...)
escape_newlines(table, m) == [k \in 1..Len(table) |-> EscapeCell(table[k], m)]

CellAlphabet == {"a", LF, "<", "b", "r", ">", "\\", "n"}

InitEscape ==
    /\ pc = "start"
    /\ \E s \in StringsUpTo(CellAlphabet, MaxCellLen) :
       \E other \in {NumCell, StrCell(<<LF, LF>>)} :
           df = <<StrCell(s), other>>
    /\ df_escaped = <<>>
    /\ marker = <<>>
    /\ RangeIdle
    /\ NamesIdle
    /\ BatchIdle

\* ex2md.py
EscapeNewlines ==
    /\ pc = "start"
    /\ pc' = "returned"
    /\ marker' = BR
    /\ df_escaped' = escape_newlines(df, BR)
    /\ UNCHANGED <<df, rangeVars, nameVars, batchVars>>

\* e2md.py
EscapeNewlinesOld ==
    /\ pc = "start"
    /\ pc' = "returned"
    /\ marker' = BackslashN
    /\ df_escaped' = escape_newlines(df, BackslashN)
    /\ UNCHANGED <<df, rangeVars, nameVars, batchVars>>

NextEscape == EscapeNewlines \/ EscapeNewlinesOld

SpecEscape == InitEscape /\ [][NextEscape]_vars

\* the number of occurrences of old in s, counted as str.count does
RECURSIVE Count(_, _)
Count(s, old) ==
    IF Len(s) < Len(old) THEN 0
    ELSE IF SubSeq(s, 1, Len(old)) = old
    THEN 1 + Count(SubSeq(s, Len(old) + 1, Len(s)), old)
    ELSE Count(Tail(s), old)

\* replacing every occurrence of the marker by a line break
Unescape(s, m) == Replace(s, m, <<LF>>)

\* what losslessness asks of cell k of the table
RoundTrips(k) ==
    /\ df_escaped[k].kind = "str"
    /\ ~Contains(df_escaped[k].val, LF)
    /\ Unescape(df_escaped[k].val, marker) = df[k].val
    /\ Count(df_escaped[k].val, marker) = Count(df[k].val, <<LF>>)

\* C10 as stated: for every string cell, unescaping the escaped cell yields the
\* original content, and the escaped cell holds one marker per line break.
C10_Lossless_AsStated ==
    pc = "returned" =>
        /\ Len(df_escaped) = Len(df)
        /\ \A k \in 1..Len(df) : df[k].kind = "str" => RoundTrips(k)

\* C10 amended: for every string cell that does not already contain the escape
\* marker, the escaped cell holds no line break, unescaping it yields the
\* original content, and it holds one marker per line break of the original;
\* a cell that is not a string is returned as it is.
C10_Lossless ==
    pc = "returned" =>
        /\ Len(df_escaped) = Len(df)
        /\ \A k \in 1..Len(df) :
               IF df[k].kind = "str"
               THEN Count(df[k].val, marker) = 0 => RoundTrips(k)
               ELSE df_escaped[k] = df[k]

\* a cell with two line breaks and no marker was escaped
C10_Witness ==
    /\ pc = "returned"
    /\ df[1] = StrCell(<<"a", LF, LF, "b">>)
    /\ Count(df_escaped[1].val, marker) = 2

(***************************************************************************)
(* parse_sheet_numbers                                                     *)
(***************************************************************************)
\* list(range(a, b + 1))
RangeSeq(a, b) == [k \in 1..(IF b >= a THEN b - a + 1 ELSE 0) |-> a + k - 1]

\* the numbers one item of the selector stands for, or the ValueError of int()
\* or of the unpacking of start, end
ParseNumberItem(item) ==
    IF Contains(item, "-")
    THEN LET parts == Split(item, "-") IN
         IF Len(parts) # 2 \/ ~IntOk(parts[1]) \/ ~IntOk(parts[2])
         THEN Raise("ValueError")
         ELSE [ok |-> TRUE, vals |-> RangeSeq(IntVal(parts[1]), IntVal(parts[2]))]
    ELSE IF ~IntOk(item) THEN Raise("ValueError")
    ELSE [ok |-> TRUE, vals |-> <<IntVal(item)>>]

RECURSIVE ParseNumberItems(_, _)
ParseNumberItems(items, n) ==
    IF n = 0 THEN [ok |-> TRUE, vals |-> <<>>]
    ELSE LET before == ParseNumberItems(items, n - 1) IN
         IF ~before.ok THEN before
         ELSE LET r == ParseNumberItem(items[n]) IN
              IF ~r.ok THEN Raise(r.exc)
              ELSE [ok |-> TRUE, vals |-> before.vals \o r.vals]

parse_sheet_numbers(s) ==
    LET items == Split(s, ",")
        r == ParseNumberItems(items, Len(items))
    IN IF ~r.ok THEN Raise(r.exc)
       ELSE [ok |-> TRUE,
             sheets |-> [k \in 1..Len(r.vals) |->
                            [sheet |-> Index(r.vals[k]), range |-> <<>>]]]

(***************************************************************************)
(* process_excel_to_markdown, save_markdown, post_markdown_to_api          *)
(***************************************************************************)
\* xls.sheet_names of the workbook at input_file
WorkbookSheets == <<<<"S">>, <<"T">>>>

SheetNameSet == {WorkbookSheets[k] : k \in 1..Len(WorkbookSheets)}

\* seq[j] of a Python list: a negative j counts from the end
PyIndexOk(seq, j) == -Len(seq) <= j /\ j < Len(seq)

PyIndex(seq, j) == IF j >= 0 THEN seq[j + 1] ELSE seq[Len(seq) + j + 1]

\* the batches main() can hand over: none (no selector), or what -sn or -na
\* parses to
NumAlphabet == {"0", "1", "2", "3", ",", "-"}

NameAlphabet == {"S", "X", ","}

RangedSelectors ==
    {<<"T", "!", "A", "1", ":", "B", "2">> \o rest :
         rest \in {<<>>, <<",", "S">>, <<",", "X">>}}

NumberSelectors ==
    {s \in StringsUpTo(NumAlphabet, MaxNumSelLen) :
         s # <<>> /\ parse_sheet_numbers(s).ok}

NameSelectors ==
    {s \in StringsUpTo(NameAlphabet, MaxNameSelLen) \cup RangedSelectors :
         s # <<>> /\ parse_sheet_names(s).ok}

Batches ==
    {b \in {<<>>} \cup {parse_sheet_numbers(s).sheets : s \in NumberSelectors}
                  \cup {parse_sheet_names(s).sheets : s \in NameSelectors} :
         Len(b) <= MaxBatch}

InitBatch ==
    /\ pc = "open"
    /\ workbook \in {"ok", "missing", "corrupt"}
    /\ pd_has_XLRDError \in BOOLEAN
    /\ sheets \in Batches
    /\ upload \in BOOLEAN
    /\ save_as_file \in BOOLEAN
    /\ idx = 0
    /\ sheet_name = Name(<<>>)
    /\ files = {}
    /\ events = <<>>
    /\ errors = <<>>
    /\ RangeIdle
    /\ NamesIdle
    /\ EscapeIdle

LogError(scope, handler) ==
    Append(errors, [scope |-> scope, handler |-> handler, pos |-> idx])

Event(op, ok) == [op |-> op, pos |-> idx, name |-> sheet_name.name, ok |-> ok]

\* the for loop goes to its next sheet, or ends
Advance ==
    /\ idx' = idx + 1
    /\ pc' = IF idx + 1 > Len(sheets) THEN "done" ELSE "resolve"

\* lines 156-159: the handlers of the outer try; the function returns
OuterExcept(exc) ==
    /\ errors' = LogError("batch", IF exc = "FileNotFoundError"
                                   THEN "FileNotFoundError" ELSE "Exception")
    /\ pc' = "done"
    /\ idx' = idx

\* lines 150-155: the handlers of the inner try.  The first clause evaluates
\* pd.errors.XLRDError: where pandas.errors has no such attribute that raises
\* AttributeError out of the inner try, into the handlers of the outer one.
InnerExcept(exc) ==
    IF ~pd_has_XLRDError
    THEN OuterExcept("AttributeError")
    ELSE /\ errors' = LogError("sheet", IF exc \in {"XLRDError", "MemoryError"}
                                        THEN exc ELSE "Exception")
         /\ Advance

\* line 135, the workbook opens
OpenWorkbook ==
    /\ pc = "open"
    /\ workbook = "ok"
    /\ idx' = 1
    /\ pc' = IF sheets = <<>> THEN "done" ELSE "resolve"
    /\ UNCHANGED <<inputVars, sheet_name, files, events, errors>>
    /\ UNCHANGED <<rangeVars, nameVars, escVars>>

\* a failed open that is ignored: the loop runs all the same
OpenWorkbookFails_goesOn ==
    /\ pc = "open"
    /\ workbook # "ok"
    /\ idx' = 1
    /\ pc' = IF sheets = <<>> THEN "done" ELSE "resolve"
    /\ UNCHANGED <<inputVars, sheet_name, files, events, errors>>
    /\ UNCHANGED <<rangeVars, nameVars, escVars>>

\* line 135, pd.ExcelFile raises
OpenWorkbookFails ==
    /\ pc = "open"
    /\ workbook # "ok"
    /\ OuterExcept(IF workbook = "missing" THEN "FileNotFoundError" ELSE "ValueError")
    /\ UNCHANGED <<inputVars, sheet_name, files, events>>
    /\ UNCHANGED <<rangeVars, nameVars, escVars>>

\* lines 137-141
ResolveSheet ==
    /\ pc = "resolve"
    /\ LET s == sheets[idx].sheet IN
       IF s.kind = "int"
       THEN IF PyIndexOk(WorkbookSheets, s.n - 1)
            THEN /\ sheet_name' = Name(PyIndex(WorkbookSheets, s.n - 1))
                 /\ pc' = "read"
                 /\ UNCHANGED <<idx, errors>>
            ELSE /\ sheet_name' = s
                 /\ InnerExcept("IndexError")
       ELSE /\ sheet_name' = s
            /\ pc' = "read"
            /\ UNCHANGED <<idx, errors>>
    /\ UNCHANGED <<inputVars, files, events>>
    /\ UNCHANGED <<rangeVars, nameVars, escVars>>

\* what pd.read_excel can do for a sheet name: an unknown name raises
\* ValueError; a sheet of the workbook is read, or the read raises
ReadOutcomes(name) ==
    IF name \in SheetNameSet THEN {"ok", "XLRDError", "MemoryError"} ELSE {"ValueError"}

\* lines 142-147: the range is parsed, the sheet read and rendered
ReadSheet ==
    /\ pc = "read"
    /\ sheets[idx].range # <<>> => excel_range_to_params(sheets[idx].range).ok
    /\ "ok" \in ReadOutcomes(sheet_name.name)
    /\ events' = Append(events, Event("read", TRUE))
    /\ pc' = "save"
    /\ UNCHANGED <<inputVars, idx, sheet_name, files, errors>>
    /\ UNCHANGED <<rangeVars, nameVars, escVars>>

\* lines 142-146: excel_range_to_params or pd.read_excel raises
ReadSheetFails ==
    /\ pc = "read"
    /\ IF sheets[idx].range # <<>> /\ ~excel_range_to_params(sheets[idx].range).ok
       THEN /\ InnerExcept("ValueError")
            /\ UNCHANGED events
       ELSE \E exc \in ReadOutcomes(sheet_name.name) \ {"ok"} :
                /\ events' = Append(events, Event("read", FALSE))
                /\ InnerExcept(exc)
    /\ UNCHANGED <<inputVars, sheet_name, files>>
    /\ UNCHANGED <<rangeVars, nameVars, escVars>>

WritesFile_onlyIfAsked == save_as_file

\* line 124: if save_as_file or not upload
WritesFile == save_as_file \/ ~upload

\* lines 125-127, the file is written
WriteFile ==
    /\ pc = "save"
    /\ WritesFile
    /\ events' = Append(events, Event("write", TRUE))
    /\ files' = files \cup {sheet_name.name}
    /\ pc' = "post"
    /\ UNCHANGED <<inputVars, idx, sheet_name, errors>>
    /\ UNCHANGED <<rangeVars, nameVars, escVars>>

\* lines 125-126, open() or write() raises
WriteFileFails ==
    /\ pc = "save"
    /\ WritesFile
    /\ events' = Append(events, Event("write", FALSE))
    /\ InnerExcept("OSError")
    /\ UNCHANGED <<inputVars, sheet_name, files>>
    /\ UNCHANGED <<rangeVars, nameVars, escVars>>

\* line 124, the condition is false
SkipWrite ==
    /\ pc = "save"
    /\ ~WritesFile
    /\ pc' = "post"
    /\ UNCHANGED <<batchVars, rangeVars, nameVars, escVars>>

\* lines 128-129 and 90-93, the POST succeeds
PostMarkdown ==
    /\ pc = "post"
    /\ upload
    /\ events' = Append(events, Event("upload", TRUE))
    /\ Advance
    /\ UNCHANGED <<inputVars, sheet_name, files, errors>>
    /\ UNCHANGED <<rangeVars, nameVars, escVars>>

\* a failed POST whose exception is not caught in post_markdown_to_api
PostMarkdownFails_raises ==
    /\ pc = "post"
    /\ upload
    /\ events' = Append(events, Event("upload", FALSE))
    /\ InnerExcept("RequestException")
    /\ UNCHANGED <<inputVars, sheet_name, files>>
    /\ UNCHANGED <<rangeVars, nameVars, escVars>>

\* lines 128-129 and 90-95, requests raises RequestException: logged, swallowed
PostMarkdownFails ==
    /\ pc = "post"
    /\ upload
    /\ events' = Append(events, Event("upload", FALSE))
    /\ errors' = LogError("upload", "RequestException")
    /\ Advance
    /\ UNCHANGED <<inputVars, sheet_name, files>>
    /\ UNCHANGED <<rangeVars, nameVars, escVars>>

\* line 128, upload is false
SkipPost ==
    /\ pc = "post"
    /\ ~upload
    /\ Advance
    /\ UNCHANGED <<inputVars, sheet_name, files, events, errors>>
    /\ UNCHANGED <<rangeVars, nameVars, escVars>>

Next ==
    \/ OpenWorkbook
    \/ OpenWorkbookFails
    \/ ResolveSheet
    \/ ReadSheet
    \/ ReadSheetFails
    \/ WriteFile
    \/ WriteFileFails
    \/ SkipWrite
    \/ PostMarkdown
    \/ PostMarkdownFails
    \/ SkipPost

Spec == InitBatch /\ [][Next]_vars

(***************************************************************************)
(* What the batch did, read off events and errors.                         *)
(***************************************************************************)
Positions == 1..Len(sheets)

EventsAt(k) == {e \in 1..Len(events) : events[e].pos = k}

ErrorsAt(k) == {e \in 1..Len(errors) : errors[e].pos = k}

\* the events of kind op at position k, and those among them that succeeded
Tried(op, k) == {e \in EventsAt(k) : events[e].op = op}

Did(op, k) == {e \in Tried(op, k) : events[e].ok}

\* the turn of sheet k is over: the loop went on, or the function returned in it
Finished(k) == idx > k \/ (pc = "done" /\ idx = k)

\* sheet k was read and rendered, and save_markdown ran for it to its end
SaveEnded(k) == Did("read", k) # {} /\ Finished(k)

\* sheet k was read, rendered and handed to every sink the flags ask for
Delivered(k) ==
    /\ Did("read", k) # {}
    /\ (save_as_file \/ ~upload) => Did("write", k) # {}
    /\ upload => Tried("upload", k) # {}

Attempted(k) == EventsAt(k) # {} \/ ErrorsAt(k) # {}

InOrder == \A e, f \in 1..Len(events) : e < f => events[e].pos <= events[f].pos

\* C1: on a workbook that opens, a failure while processing one sheet is
\* confined to that sheet: when the driver has returned, every sheet of the
\* batch was either delivered to the sink or has exactly one error logged for
\* it, a per-sheet one, and the sheets were processed in selector order.
C1_FailureIsolated ==
    (pc = "done" /\ workbook = "ok") =>
        /\ InOrder
        /\ \A k \in Positions :
               IF Delivered(k)
               THEN \A e \in ErrorsAt(k) : errors[e].scope = "upload"
               ELSE /\ Cardinality(ErrorsAt(k)) = 1
                    /\ \A e \in ErrorsAt(k) : errors[e].scope = "sheet"

\* C2: if the workbook is missing or cannot be opened, the batch is aborted
\* before any sheet is touched: nothing is read, written or uploaded, the loop
\* is never entered, and the failure is logged once, by the outer handlers.
C2_OpenFailureAborts ==
    workbook # "ok" =>
        /\ events = <<>>
        /\ files = {}
        /\ idx = 0
        /\ pc \in {"open", "done"}
        /\ pc = "open" => errors = <<>>
        /\ pc = "done" =>
               errors = <<[scope |-> "batch",
                           handler |-> IF workbook = "missing"
                                       THEN "FileNotFoundError" ELSE "Exception",
                           pos |-> 0]>>

\* a batch of three sheets, to be uploaded, on a missing workbook: returned
C2_Witness ==
    /\ workbook = "missing"
    /\ pc = "done"
    /\ Len(sheets) = 3
    /\ upload

\* C3: for a numeric identifier i and a workbook of N sheets: if i is outside
\* 1..N nothing is read, written or uploaded for that spec and an error is
\* logged for it; if i is inside 1..N every read, write and upload made for the
\* spec is of the i-th sheet name.
C3_IndexResolution ==
    \A k \in Positions :
        sheets[k].sheet.kind = "int" =>
            LET i == sheets[k].sheet.n IN
            IF i \in 1..Len(WorkbookSheets)
            THEN \A e \in EventsAt(k) : events[e].name = WorkbookSheets[i]
            ELSE /\ EventsAt(k) = {}
                 /\ Finished(k) => ErrorsAt(k) # {}

\* C4 as stated: for every rendered table, the local write is made iff
\* (save_as_file or not upload) and the upload is attempted iff upload; with
\* upload and not save_as_file no file is ever written; the write precedes the
\* upload.
C4_SinkFlags_AsStated ==
    /\ (upload /\ ~save_as_file) => (files = {} /\ \A e \in 1..Len(events) : events[e].op # "write")
    /\ \A k \in Positions :
           SaveEnded(k) =>
               /\ Tried("write", k) # {} <=> (save_as_file \/ ~upload)
               /\ Tried("upload", k) # {} <=> upload
               /\ \A w \in Tried("write", k) : \A u \in Tried("upload", k) : w < u

\* C4 amended: for every rendered table, save_markdown attempts the local write
\* iff (save_as_file or not upload), and attempts the upload iff upload is true
\* and that write, when attempted, did not raise; a write that succeeds leaves
\* the file on disk; with upload and not save_as_file no file is ever written,
\* whether the upload succeeds or fails; the write precedes the upload.
C4_SinkFlags ==
    /\ (upload /\ ~save_as_file) => (files = {} /\ \A e \in 1..Len(events) : events[e].op # "write")
    /\ \A k \in Positions :
           SaveEnded(k) =>
               /\ Cardinality(Tried("write", k)) = IF save_as_file \/ ~upload THEN 1 ELSE 0
               /\ Cardinality(Tried("upload", k)) =
                      IF upload /\ Tried("write", k) = Did("write", k) THEN 1 ELSE 0
               /\ \A w \in Did("write", k) : events[w].name \in files
               /\ \A w \in Tried("write", k) : \A u \in Tried("upload", k) : w < u

\* both sinks asked for: a sheet was written and then its upload failed
C4_Witness ==
    /\ upload /\ save_as_file
    /\ \E k \in Positions :
           /\ SaveEnded(k)
           /\ Did("write", k) # {}
           /\ Tried("upload", k) # {} /\ Did("upload", k) = {}

\* C5: a failed upload for the sheet at position k is logged once, by
\* post_markdown_to_api, and is no failure of the sheet or of the batch; the
\* file written for that sheet, when also asked for, was written before the
\* upload and is still on disk; the loop goes on past k, and a later sheet of
\* the batch is left unattempted only behind a later sheet whose own exception
\* ended the batch.
C5_UploadFailureNonFatal ==
    \A u \in 1..Len(events) :
        (events[u].op = "upload" /\ ~events[u].ok) =>
            LET k == events[u].pos IN
            /\ Cardinality(ErrorsAt(k)) = 1
            /\ \A e \in ErrorsAt(k) : errors[e].scope = "upload"
            /\ save_as_file =>
                   /\ events[u].name \in files
                   /\ \E w \in Did("write", k) : w < u
            /\ idx > k
            /\ pc = "done" =>
                   \A j \in (k + 1)..Len(sheets) :
                       \/ Attempted(j)
                       \/ \E m \in (k + 1)..(j - 1) :
                              \E e \in ErrorsAt(m) : errors[e].scope = "batch"

\* the upload of the first sheet failed after its file was written, and the
\* second sheet was read, written and uploaded
C5_Witness ==
    /\ pc = "done"
    /\ save_as_file
    /\ Tried("upload", 1) # {} /\ Did("upload", 1) = {}
    /\ Did("write", 1) # {}
    /\ Len(sheets) >= 2
    /\ Did("read", 2) # {} /\ Did("write", 2) # {} /\ Did("upload", 2) # {}

=============================================================================
